---- MODULE Spec2Model ----
(***************************************************************************)
(* Transaction builders of avalanche.js: the spendable solver              *)
(* (getMinimumSpendable over an AssetAmountDestination) and the BaseTx,    *)
(* ImportTx and ExportTx builders of the PlatformVM UTXOSet                *)
(* (src/unnamed/part_000) and of the EVM (C-chain) UTXOSet                 *)
(* (src/src/apis/avm/initialstates.ts).                                    *)
(*                                                                         *)
(* The state is a UTXO set (in its iteration order), the last builder call *)
(* with its arguments, and what that call returned or threw (with the      *)
(* AssetAmountDestination the call worked on).                             *)
(*                                                                         *)
(* The InitialStates codec of src/src/apis/avm/initialstates.ts is         *)
(* modelled byte by byte: the state is an InitialStates object (fxs), the  *)
(* buffer its toBuffer returned last, and what fromBuffer made of a buffer *)
(* in a fresh object.                                                      *)
(***************************************************************************)
EXTENDS Integers, Sequences, FiniteSets, TLC

VARIABLES utxos, call, ret, fxs, buffer, decoded, assetAmount, spendRet,
          utxoset, cloneset, utxoObj, utxoRet,
          core, setAddressArgs, configs, requests

vars == <<utxos, call, ret, fxs, buffer, decoded, assetAmount, spendRet,
          utxoset, cloneset, utxoObj, utxoRet,
          core, setAddressArgs, configs, requests>>

\* the builders' state, the codec's state, and an AssetAmount with what its
\* spendAmount returned last
buildervars == <<utxos, call, ret>>
codecvars == <<fxs, buffer, decoded>>
amountvars == <<assetAmount, spendRet>>
\* a C-chain UTXOSet object and what clone() of it returned
setvars == <<utxoset, cloneset>>
\* a UTXO object and what fromBuffer on it returned or threw
utxovars == <<utxoObj, utxoRet>>
\* a SlopesCore object, the arguments of the latest setAddress, the request
\* configuration objects and the requests issued
slopesvars == <<core, setAddressArgs, configs, requests>>

\* what the operations of one kind leave alone
notbuilder == <<codecvars, amountvars, setvars, utxovars, slopesvars>>
notcodec == <<buildervars, amountvars, setvars, utxovars, slopesvars>>
notamount == <<buildervars, codecvars, setvars, utxovars, slopesvars>>
notset == <<buildervars, codecvars, amountvars, utxovars, slopesvars>>
notutxo == <<buildervars, codecvars, amountvars, setvars, slopesvars>>
notslopes == <<buildervars, codecvars, amountvars, setvars, utxovars>>

(***************************************************************************)
(* Bounds of the model.                                                    *)
(***************************************************************************)
\* the largest number of UTXOs held by the set
MaxUTXOs == 2
\* the largest amount of a UTXO, and the largest amount demanded
MaxAmt == 2
\* the largest fee
MaxFee == 1
\* the largest number of outputs held under one fxID
MaxOuts == 2
\* the largest group id of an output
MaxGroupID == 1

(***************************************************************************)
(* Values.                                                                 *)
(***************************************************************************)
\* an omitted (undefined) BN argument
Undef == -1
\* an omitted (undefined) Buffer argument (asset id)
UndefID == "undefined"
\* an omitted (undefined) address array
UndefAddrs == <<-1>>

AVAX == "AVAX"
ASSET2 == "ASSET2"
Assets == {AVAX, ASSET2}

\* addresses are the numbers 1 and 2, ordered as their bytes are

\* output types: SECPTransferOutput (an AmountOutput) and NFTTransferOutput
\* (not an AmountOutput)
SECPXFEROUTPUTID == "SECPTransferOutput"
NFTXFEROUTPUTID == "NFTTransferOutput"
\* outids[assetKey] before any UTXO of the asset was consumed
NoOutputID == "undefined"

InsufficientFunds == "Error - UTXOSet.getMinimumSpendable: insufficient funds to create the transaction"
ThresholdError == "Error - UTXOSet.buildBaseTx: threshold is greater than number of addresses"
FeeAssetError == "Error - UTXOSet.buildExportTx: feeAssetID must match avaxAssetID"
TypeError == "TypeError: Cannot read property 'toString' of undefined"

BNval(x) == IF x = Undef THEN 0 ELSE x

RECURSIVE SumOver(_, _)
\* the total amount of the entries of sequence s that are of asset a
SumOver(s, a) ==
  IF s = << >> THEN 0
  ELSE (IF Head(s).assetID = a THEN Head(s).amount ELSE 0) + SumOver(Tail(s), a)

(***************************************************************************)
(* Canonical orderings (the comparators are not among the sources: from    *)
(* the spec). Serialized fields are fixed-width big-endian, so comparing   *)
(* the bytes is comparing the sequence of field values.                    *)
(***************************************************************************)
\* the asset ids and output type ids as numbers ordered as their bytes are
assetIDBytes(a) == IF a = AVAX THEN 1 ELSE 2
outputIDBytes(outid) ==
  IF outid = SECPXFEROUTPUTID THEN 7 ELSE IF outid = NFTXFEROUTPUTID THEN 11 ELSE 0

RECURSIVE LexLess(_, _)
\* byte-lex order: s before t
LexLess(s, t) ==
  IF s = << >> THEN t # << >>
  ELSE IF t = << >> THEN FALSE
  ELSE IF Head(s) = Head(t) THEN LexLess(Tail(s), Tail(t))
  ELSE Head(s) < Head(t)

\* assetID, typeID, amount, locktime, threshold, numAddrs, addresses
OutputBytes(o) ==
  <<assetIDBytes(o.assetID), outputIDBytes(o.outid), o.amount, o.locktime,
    o.threshold, Len(o.addrs)>> \o o.addrs

\* txID, outputIndex
InputBytes(in) == <<in.txid, in.outputidx>>

SortOutputs(outs) ==
  SortSeq(outs, LAMBDA a, b : LexLess(OutputBytes(a), OutputBytes(b)))

SortInputs(ins) ==
  SortSeq(ins, LAMBDA a, b : LexLess(InputBytes(a), InputBytes(b)))

SortAddresses(addresses) == SortSeq(addresses, LAMBDA a, b : a < b)

(***************************************************************************)
(* Outputs (common/output.ts is not among the sources: from the spec).     *)
(***************************************************************************)
isAmountOutput(out) == out.outid = SECPXFEROUTPUTID

\* the senders among the output's addresses, in the order of the output's
\* address list, when the output is unlocked at asOf
getSpenders(out, fromAddresses, asOf) ==
  IF out.locktime <= asOf
  THEN SelectSeq(out.addrs, LAMBDA a : \E j \in 1..Len(fromAddresses) : fromAddresses[j] = a)
  ELSE << >>

meetsThreshold(out, fromAddresses, asOf) ==
  /\ out.locktime <= asOf
  /\ Len(getSpenders(out, fromAddresses, asOf)) >= out.threshold

getAddressIdx(out, a) ==
  IF \E k \in 1..Len(out.addrs) : out.addrs[k] = a
  THEN (CHOOSE k \in 1..Len(out.addrs) : out.addrs[k] = a) - 1
  ELSE -1

\* SelectOutputClass(outid, amount, addresses, locktime, threshold)
SelectOutputClass(outid, amount, addresses, locktime, threshold) ==
  [outid |-> outid, amount |-> amount, addrs |-> SortAddresses(addresses),
   locktime |-> locktime, threshold |-> threshold]

TransferableOutput(assetID, out) ==
  [assetID |-> assetID, outid |-> out.outid, amount |-> out.amount,
   addrs |-> out.addrs, locktime |-> out.locktime, threshold |-> out.threshold]

TransferableInput(txid, outputidx, assetID, amount) ==
  [txid |-> txid, outputidx |-> outputidx, assetID |-> assetID,
   amount |-> amount, sigidx |-> << >>]

UTXO(txid, outputidx, assetID, output) ==
  [txid |-> txid, outputidx |-> outputidx, assetID |-> assetID, output |-> output]

addSignatureIdx(xferin, idx) == [xferin EXCEPT !.sigidx = Append(@, idx)]

EVMOutput(address, amount, assetID) ==
  [address |-> address, amount |-> amount, assetID |-> assetID]

(***************************************************************************)
(* AssetAmount.                                                            *)
(***************************************************************************)
AssetAmount(assetID, amount, burn) ==
  [assetID |-> assetID, amount |-> BNval(amount), burn |-> BNval(burn),
   spent |-> 0, change |-> 0, finished |-> FALSE]

\* spendAmount without the test of finished
spendAmountAlways(aa, amt) ==
  LET total == aa.amount + aa.burn
      spent == aa.spent + amt
  IN IF spent >= total
     THEN [aa EXCEPT !.spent = spent, !.change = spent - total, !.finished = TRUE]
     ELSE [aa EXCEPT !.spent = spent]

\* spendAmount computing the change from the amount alone (the burn forgotten)
spendAmountNoBurn(aa, amt) ==
  IF ~aa.finished
  THEN LET total == aa.amount + aa.burn
           spent == aa.spent + amt
       IN IF spent >= total
          THEN [aa EXCEPT !.spent = spent, !.change = spent - aa.amount, !.finished = TRUE]
          ELSE [aa EXCEPT !.spent = spent]
  ELSE aa

spendAmount(aa, amt) ==
  IF ~aa.finished
  THEN LET total == aa.amount + aa.burn
           spent == aa.spent + amt
       IN IF spent >= total
          THEN [aa EXCEPT !.spent = spent, !.change = spent - total, !.finished = TRUE]
          ELSE [aa EXCEPT !.spent = spent]
  ELSE aa

(***************************************************************************)
(* AssetAmountDestination. amountkey maps an asset id to the AssetAmount   *)
(* added last for it: the object is the one held by the amounts list, so   *)
(* the key is kept as that entry's position.                               *)
(***************************************************************************)
AssetAmountDestination(destinations, senders, changeAddresses) ==
  [amounts |-> << >>, destinations |-> destinations, senders |-> senders,
   changeAddresses |-> changeAddresses,
   inputs |-> << >>, outputs |-> << >>, change |-> << >>]

\* the aad of a call that created none
NoAad == AssetAmountDestination(<< >>, << >>, << >>)

addAssetAmount(d, assetID, amount, burn) ==
  [d EXCEPT !.amounts = Append(@, AssetAmount(assetID, amount, burn))]

addInput(d, input) == [d EXCEPT !.inputs = Append(@, input)]

addOutput(d, output) == [d EXCEPT !.outputs = Append(@, output)]

addChange(d, output) == [d EXCEPT !.change = Append(@, output)]

assetExists(d, assetID) == \E k \in 1..Len(d.amounts) : d.amounts[k].assetID = assetID

\* the position in amounts of the entry amountkey holds for the asset
amountkey(d, assetID) ==
  CHOOSE k \in 1..Len(d.amounts) :
    /\ d.amounts[k].assetID = assetID
    /\ \A m \in (k + 1)..Len(d.amounts) : d.amounts[m].assetID # assetID

getAssetAmount(d, assetID) == d.amounts[amountkey(d, assetID)]

getAllOutputs(d) == d.outputs \o d.change

\* canComplete answering for the first demand only
canCompleteFirst(d) == d.amounts = << >> \/ d.amounts[1].finished

canComplete(d) == \A k \in 1..Len(d.amounts) : d.amounts[k].finished

(***************************************************************************)
(* The spendable solver.                                                   *)
(***************************************************************************)
RECURSIVE SignatureIdxsNone(_, _, _, _)
\* the loop over spenders adding no signature index
SignatureIdxsNone(xferin, uout, spenders, j) ==
  IF j > Len(spenders) THEN xferin
  ELSE SignatureIdxsNone(xferin, uout, spenders, j + 1)

RECURSIVE SignatureIdxsReversed(_, _, _, _)
\* the loop over spenders run from the last spender to the first
SignatureIdxsReversed(xferin, uout, spenders, j) ==
  IF j > Len(spenders) THEN xferin
  ELSE addSignatureIdx(SignatureIdxsReversed(xferin, uout, spenders, j + 1),
                       getAddressIdx(uout, spenders[j]))

RECURSIVE SignatureIdxs(_, _, _, _)
\* the loop over spenders: one signature index per spender
SignatureIdxs(xferin, uout, spenders, j) ==
  IF j > Len(spenders) THEN xferin
  ELSE SignatureIdxs(addSignatureIdx(xferin, getAddressIdx(uout, spenders[j])),
                     uout, spenders, j + 1)

\* the body of the selection loop without the isFinished test
SelectUTXOFinishedToo(d, outids, u, asOf) ==
  LET fromAddresses == d.senders
  IN IF /\ isAmountOutput(u.output)
        /\ assetExists(d, u.assetID)
        /\ meetsThreshold(u.output, fromAddresses, asOf)
     THEN LET k == amountkey(d, u.assetID)
              am == d.amounts[k]
              uout == u.output
              amount == uout.amount
              d1 == [d EXCEPT !.amounts[k] = spendAmount(am, amount)]
              xferin == TransferableInput(u.txid, u.outputidx, u.assetID, amount)
              spenders == getSpenders(uout, fromAddresses, asOf)
          IN [aad |-> addInput(d1, SignatureIdxs(xferin, uout, spenders, 1)),
              outids |-> [outids EXCEPT ![u.assetID] = uout.outid]]
     ELSE [aad |-> d, outids |-> outids]

\* the body of the selection loop without the instanceof AmountOutput test
SelectUTXOAnyOutput(d, outids, u, asOf) ==
  LET fromAddresses == d.senders
  IN IF assetExists(d, u.assetID) /\ meetsThreshold(u.output, fromAddresses, asOf)
     THEN LET k == amountkey(d, u.assetID)
              am == d.amounts[k]
          IN IF ~am.finished
             THEN LET uout == u.output
                      amount == uout.amount
                      d1 == [d EXCEPT !.amounts[k] = spendAmount(am, amount)]
                      xferin == TransferableInput(u.txid, u.outputidx, u.assetID, amount)
                      spenders == getSpenders(uout, fromAddresses, asOf)
                  IN [aad |-> addInput(d1, SignatureIdxs(xferin, uout, spenders, 1)),
                      outids |-> [outids EXCEPT ![u.assetID] = uout.outid]]
             ELSE [aad |-> d, outids |-> outids]
     ELSE [aad |-> d, outids |-> outids]

\* the body of the selection loop without the meetsThreshold test
SelectUTXOAnySigners(d, outids, u, asOf) ==
  LET fromAddresses == d.senders
  IN IF isAmountOutput(u.output) /\ assetExists(d, u.assetID)
     THEN LET k == amountkey(d, u.assetID)
              am == d.amounts[k]
          IN IF ~am.finished
             THEN LET uout == u.output
                      amount == uout.amount
                      d1 == [d EXCEPT !.amounts[k] = spendAmount(am, amount)]
                      xferin == TransferableInput(u.txid, u.outputidx, u.assetID, amount)
                      spenders == getSpenders(uout, fromAddresses, asOf)
                  IN [aad |-> addInput(d1, SignatureIdxs(xferin, uout, spenders, 1)),
                      outids |-> [outids EXCEPT ![u.assetID] = uout.outid]]
             ELSE [aad |-> d, outids |-> outids]
     ELSE [aad |-> d, outids |-> outids]

\* the body of the selection loop for UTXO u: [aad, outids] after it
SelectUTXO(d, outids, u, asOf) ==
  LET fromAddresses == d.senders
  IN IF /\ isAmountOutput(u.output)
        /\ assetExists(d, u.assetID)
        /\ meetsThreshold(u.output, fromAddresses, asOf)
     THEN LET k == amountkey(d, u.assetID)
              am == d.amounts[k]
          IN IF ~am.finished
             THEN LET uout == u.output
                      amount == uout.amount
                      d1 == [d EXCEPT !.amounts[k] = spendAmount(am, amount)]
                      xferin == TransferableInput(u.txid, u.outputidx, u.assetID, amount)
                      spenders == getSpenders(uout, fromAddresses, asOf)
                  IN [aad |-> addInput(d1, SignatureIdxs(xferin, uout, spenders, 1)),
                      outids |-> [outids EXCEPT ![u.assetID] = uout.outid]]
             ELSE [aad |-> d, outids |-> outids]
     ELSE [aad |-> d, outids |-> outids]

RECURSIVE SelectLoop(_, _, _, _, _)
\* for(i = 0; i < utxoArray.length && !aad.canComplete(); i++)
SelectLoop(d, outids, utxoArray, i, asOf) ==
  IF i > Len(utxoArray) \/ canComplete(d)
  THEN [aad |-> d, outids |-> outids]
  ELSE LET s == SelectUTXO(d, outids, utxoArray[i], asOf)
       IN SelectLoop(s.aad, s.outids, utxoArray, i + 1, asOf)

\* the destination output of demand am (if its amount > 0)
SpendOut(d, outids, am, locktime, threshold) ==
  TransferableOutput(am.assetID,
    SelectOutputClass(outids[am.assetID], am.amount, d.destinations, locktime, threshold))

\* the change output of demand am (if its change > 0); the output's
\* constructor defaults: locktime 0, threshold 1
ChangeOut(d, outids, am) ==
  TransferableOutput(am.assetID,
    SelectOutputClass(outids[am.assetID], am.change, d.changeAddresses, 0, 1))

RECURSIVE PlatformVMEmitAlways(_, _, _, _, _)
\* the loop emitting a destination output for every demand, amount 0 too
PlatformVMEmitAlways(d, outids, i, locktime, threshold) ==
  IF i > Len(d.amounts) THEN d
  ELSE LET am == d.amounts[i]
           d1 == addOutput(d, SpendOut(d, outids, am, locktime, threshold))
           d2 == IF am.change > 0
                 THEN addOutput(d1, ChangeOut(d, outids, am))
                 ELSE d1
       IN PlatformVMEmitAlways(d2, outids, i + 1, locktime, threshold)

RECURSIVE PlatformVMEmit(_, _, _, _, _)
\* PlatformVM: the loop over the demands that emits the outputs; the change
\* output goes to aad.addOutput
PlatformVMEmit(d, outids, i, locktime, threshold) ==
  IF i > Len(d.amounts) THEN d
  ELSE LET am == d.amounts[i]
           d1 == IF am.amount > 0
                 THEN addOutput(d, SpendOut(d, outids, am, locktime, threshold))
                 ELSE d
           d2 == IF am.change > 0
                 THEN addOutput(d1, ChangeOut(d, outids, am))
                 ELSE d1
       IN PlatformVMEmit(d2, outids, i + 1, locktime, threshold)

RECURSIVE EVMEmit(_, _, _, _, _)
\* EVM: the same loop; the change output goes to aad.addChange
EVMEmit(d, outids, i, locktime, threshold) ==
  IF i > Len(d.amounts) THEN d
  ELSE LET am == d.amounts[i]
           d1 == IF am.amount > 0
                 THEN addOutput(d, SpendOut(d, outids, am, locktime, threshold))
                 ELSE d
           d2 == IF am.change > 0
                 THEN addChange(d1, ChangeOut(d, outids, am))
                 ELSE d1
       IN EVMEmit(d2, outids, i + 1, locktime, threshold)

NoOutids == [a \in Assets |-> NoOutputID]

\* PlatformVM UTXOSet.getMinimumSpendable: [err, aad]; err is "" for undefined
getMinimumSpendable(utxoArray, d, asOf, locktime, threshold) ==
  LET s == SelectLoop(d, NoOutids, utxoArray, 1, asOf)
  IN IF ~canComplete(s.aad)
     THEN [err |-> InsufficientFunds, aad |-> s.aad]
     ELSE [err |-> "", aad |-> PlatformVMEmit(s.aad, s.outids, 1, locktime, threshold)]

\* EVM UTXOSet.getMinimumSpendable
EVMgetMinimumSpendable(utxoArray, d, asOf, locktime, threshold) ==
  LET s == SelectLoop(d, NoOutids, utxoArray, 1, asOf)
  IN IF ~canComplete(s.aad)
     THEN [err |-> InsufficientFunds, aad |-> s.aad]
     ELSE [err |-> "", aad |-> EVMEmit(s.aad, s.outids, 1, locktime, threshold)]

(***************************************************************************)
(* Transactions: the constructors put the lists they are handed in the     *)
(* canonical order (the EVMOutputs of a C-chain ImportTx are kept as       *)
(* handed).                                                                *)
(***************************************************************************)
NoTx == [type |-> "none", ins |-> << >>, outs |-> << >>,
         exportouts |-> << >>, importins |-> << >>]

BaseTx(outs, ins) ==
  [NoTx EXCEPT !.type = "BaseTx", !.outs = SortOutputs(outs), !.ins = SortInputs(ins)]

\* PlatformVM ImportTx(networkid, blockchainid, sourceChain, outs, ins, memo, importIns)
ImportTx(outs, ins, importIns) ==
  [NoTx EXCEPT !.type = "ImportTx", !.outs = SortOutputs(outs), !.ins = SortInputs(ins),
               !.importins = SortInputs(importIns)]

\* PlatformVM ExportTx(networkid, blockchainid, destinationChain, outs, ins, memo, exportouts)
ExportTx(outs, ins, exportouts) ==
  [NoTx EXCEPT !.type = "ExportTx", !.outs = SortOutputs(outs), !.ins = SortInputs(ins),
               !.exportouts = SortOutputs(exportouts)]

\* EVM ImportTx(networkid, blockchainid, sourceChain, importIns, outs)
EVMImportTx(importIns, outs) ==
  [NoTx EXCEPT !.type = "EVMImportTx", !.importins = SortInputs(importIns), !.outs = outs]

\* EVM ExportTx(networkid, blockchainid, destinationChain, inputs, exportedOutputs)
EVMExportTx(ins, exportouts) ==
  [NoTx EXCEPT !.type = "EVMExportTx", !.ins = ins, !.exportouts = SortOutputs(exportouts)]

\* what a builder does: returns an UnsignedTx, returns undefined, or throws
Returned(tx, d) == [status |-> "tx", err |-> "", tx |-> tx, aad |-> d]
ReturnedUndefined == [status |-> "undefined", err |-> "", tx |-> NoTx, aad |-> NoAad]
Thrown(err, d) == [status |-> "error", err |-> err, tx |-> NoTx, aad |-> d]

(***************************************************************************)
(* PlatformVM UTXOSet builders.                                            *)
(***************************************************************************)
\* buildBaseTx registering the payload and the fee as two demands even when
\* the fee asset is the payload asset
buildBaseTxTwoDemands(utxoArray, amount, assetID, toAddresses, fromAddresses, changeAddressesArg, fee, feeAssetIDArg, asOf, locktime, threshold) ==
  IF threshold > Len(toAddresses) THEN Thrown(ThresholdError, NoAad)
  ELSE
    LET changeAddresses == IF changeAddressesArg = UndefAddrs THEN toAddresses
                           ELSE changeAddressesArg
        feeAssetID == IF feeAssetIDArg = UndefID THEN assetID ELSE feeAssetIDArg
    IN IF amount = 0 THEN ReturnedUndefined
       ELSE
         LET d0 == AssetAmountDestination(toAddresses, fromAddresses, changeAddresses)
             d1 == addAssetAmount(addAssetAmount(d0, assetID, amount, 0), feeAssetID, 0, fee)
             success == getMinimumSpendable(utxoArray, d1, asOf, locktime, threshold)
         IN IF success.err = ""
            THEN Returned(BaseTx(getAllOutputs(success.aad), success.aad.inputs),
                          success.aad)
            ELSE Thrown(success.err, success.aad)

buildBaseTx(utxoArray, amount, assetID, toAddresses, fromAddresses, changeAddressesArg, fee, feeAssetIDArg, asOf, locktime, threshold) ==
  IF threshold > Len(toAddresses) THEN Thrown(ThresholdError, NoAad)
  ELSE
    LET changeAddresses == IF changeAddressesArg = UndefAddrs THEN toAddresses
                           ELSE changeAddressesArg
        feeAssetID == IF feeAssetIDArg = UndefID THEN assetID ELSE feeAssetIDArg
    IN IF amount = 0 THEN ReturnedUndefined
       ELSE
         LET d0 == AssetAmountDestination(toAddresses, fromAddresses, changeAddresses)
             d1 == IF assetID = feeAssetID
                   THEN addAssetAmount(d0, assetID, amount, fee)
                   ELSE addAssetAmount(addAssetAmount(d0, assetID, amount, 0),
                                       feeAssetID, 0, fee)
             success == getMinimumSpendable(utxoArray, d1, asOf, locktime, threshold)
         IN IF success.err = ""
            THEN Returned(BaseTx(getAllOutputs(success.aad), success.aad.inputs),
                          success.aad)
            ELSE Thrown(success.err, success.aad)

buildImportTx(utxoArray, fromAddresses, importIns, fee, feeAssetID, asOf) ==
  IF fee # Undef /\ feeAssetID # UndefID
  THEN LET d0 == AssetAmountDestination(fromAddresses, fromAddresses, fromAddresses)
           d1 == addAssetAmount(d0, feeAssetID, 0, fee)
           success == getMinimumSpendable(utxoArray, d1, asOf, 0, 1)
       IN IF success.err = ""
          THEN Returned(ImportTx(getAllOutputs(success.aad), success.aad.inputs, importIns),
                        success.aad)
          ELSE Thrown(success.err, success.aad)
  ELSE Returned(ImportTx(<< >>, << >>, importIns), NoAad)

\* buildExportTx with the fee-asset check placed before the amount.eq(zero) test
buildExportTxFeeFirst(utxoArray, amount, avaxAssetID, toAddresses, fromAddresses, changeAddressesArg, fee, feeAssetIDArg, asOf, locktime, threshold) ==
  IF feeAssetIDArg # UndefID /\ feeAssetIDArg # avaxAssetID
  THEN Thrown(FeeAssetError, NoAad)
  ELSE IF amount = 0 THEN ReturnedUndefined
  ELSE
    LET changeAddresses == IF changeAddressesArg = UndefAddrs THEN toAddresses
                           ELSE changeAddressesArg
        d1 == addAssetAmount(AssetAmountDestination(toAddresses, fromAddresses, changeAddresses),
                             avaxAssetID, amount, fee)
        success == getMinimumSpendable(utxoArray, d1, asOf, locktime, threshold)
    IN IF success.err = ""
       THEN Returned(ExportTx(success.aad.change, success.aad.inputs,
                              success.aad.outputs), success.aad)
       ELSE Thrown(success.err, success.aad)

buildExportTx(utxoArray, amount, avaxAssetID, toAddresses, fromAddresses, changeAddressesArg, fee, feeAssetIDArg, asOf, locktime, threshold) ==
  LET changeAddresses == IF changeAddressesArg = UndefAddrs THEN toAddresses
                         ELSE changeAddressesArg
  IN IF amount = 0 THEN ReturnedUndefined
     ELSE IF feeAssetIDArg # UndefID /\ feeAssetIDArg # avaxAssetID
     THEN Thrown(FeeAssetError, NoAad)
     ELSE
       LET feeAssetID == avaxAssetID
           d0 == AssetAmountDestination(toAddresses, fromAddresses, changeAddresses)
           d1 == IF avaxAssetID = feeAssetID
                 THEN addAssetAmount(d0, avaxAssetID, amount, fee)
                 ELSE addAssetAmount(addAssetAmount(d0, avaxAssetID, amount, 0),
                                     feeAssetID, 0, fee)
           success == getMinimumSpendable(utxoArray, d1, asOf, locktime, threshold)
       IN IF success.err = ""
          THEN Returned(ExportTx(success.aad.change, success.aad.inputs,
                                 success.aad.outputs), success.aad)
          ELSE Thrown(success.err, success.aad)

(***************************************************************************)
(* EVM (C-chain) UTXOSet builders.                                         *)
(***************************************************************************)
feeCheck(fee, feeAssetID) == fee # Undef /\ feeAssetID # UndefID /\ fee > 0

\* the body of atomics.forEach for one atomic UTXO: [feepaid, ins, outs] after it
ImportAtomic(acc, atomic, toAddresses, fee, feeAssetID, now) ==
  LET assetID == atomic.assetID
      output == atomic.output
      amt == output.amount
      takesFee == /\ feeAssetID # UndefID
                  /\ fee > 0
                  /\ acc.feepaid < fee
                  /\ assetID = feeAssetID
      summed == acc.feepaid + amt
      feepaid == IF takesFee THEN (IF summed > fee THEN fee ELSE summed)
                 ELSE acc.feepaid
      infeeamount == IF takesFee THEN (IF summed > fee THEN summed - fee ELSE 0)
                     ELSE amt
      xferin == TransferableInput(atomic.txid, atomic.outputidx, assetID, amt)
      from == output.addrs
      spenders == getSpenders(output, from, now)
      ins == Append(acc.ins, SignatureIdxs(xferin, output, spenders, 1))
      outs == IF infeeamount > 0
              THEN Append(acc.outs, EVMOutput(toAddresses[1], amt, assetID))
              ELSE acc.outs
  IN [feepaid |-> feepaid, ins |-> ins, outs |-> outs]

RECURSIVE ImportAtomics(_, _, _, _, _, _, _)
\* atomics.forEach
ImportAtomics(acc, atomics, i, toAddresses, fee, feeAssetID, now) ==
  IF i > Len(atomics) THEN acc
  ELSE ImportAtomics(ImportAtomic(acc, atomics[i], toAddresses, fee, feeAssetID, now),
                     atomics, i + 1, toAddresses, fee, feeAssetID, now)

EVMbuildImportTx(utxoArray, toAddresses, fromAddresses, atomics, feeArg, feeAssetID, now) ==
  LET fee == IF feeArg = Undef THEN 0 ELSE feeArg
  IN IF feeAssetID = UndefID THEN Thrown(TypeError, NoAad)
     ELSE LET r == ImportAtomics([feepaid |-> 0, ins |-> << >>, outs |-> << >>],
                                 atomics, 1, toAddresses, fee, feeAssetID, now)
          IN Returned(EVMImportTx(r.ins, r.outs), NoAad)

\* EVM buildExportTx without the fee-asset guard: the fee asset is the one passed
EVMbuildExportTxAnyFeeAsset(utxoArray, amount, avaxAssetId, toAddresses, fromAddresses, changeAddressesArg, fee, feeAssetIdArg, asOf, locktime, threshold) ==
  LET changeAddresses == IF changeAddressesArg = UndefAddrs THEN toAddresses
                         ELSE changeAddressesArg
      feeAssetId == IF feeAssetIdArg = UndefID THEN avaxAssetId ELSE feeAssetIdArg
  IN IF amount = 0 THEN ReturnedUndefined
     ELSE
       LET d0 == AssetAmountDestination(toAddresses, fromAddresses, changeAddresses)
           d1 == IF avaxAssetId = feeAssetId
                 THEN addAssetAmount(d0, avaxAssetId, amount, fee)
                 ELSE LET d2 == addAssetAmount(d0, avaxAssetId, amount, 0)
                      IN IF feeCheck(fee, feeAssetId)
                         THEN addAssetAmount(d2, feeAssetId, 0, fee)
                         ELSE d2
           success == EVMgetMinimumSpendable(utxoArray, d1, asOf, locktime, threshold)
       IN IF success.err = ""
          THEN Returned(EVMExportTx(<< >>, success.aad.outputs), success.aad)
          ELSE Thrown(success.err, success.aad)

EVMbuildExportTx(utxoArray, amount, avaxAssetId, toAddresses, fromAddresses, changeAddressesArg, fee, feeAssetIdArg, asOf, locktime, threshold) ==
  LET changeAddresses == IF changeAddressesArg = UndefAddrs THEN toAddresses
                         ELSE changeAddressesArg
  IN IF amount = 0 THEN ReturnedUndefined
     ELSE IF feeAssetIdArg # UndefID /\ feeAssetIdArg # avaxAssetId
     THEN Thrown(FeeAssetError, NoAad)
     ELSE
       LET feeAssetId == avaxAssetId
           d0 == AssetAmountDestination(toAddresses, fromAddresses, changeAddresses)
           d1 == IF avaxAssetId = feeAssetId
                 THEN addAssetAmount(d0, avaxAssetId, amount, fee)
                 ELSE LET d2 == addAssetAmount(d0, avaxAssetId, amount, 0)
                      IN IF feeCheck(fee, feeAssetId)
                         THEN addAssetAmount(d2, feeAssetId, 0, fee)
                         ELSE d2
           success == EVMgetMinimumSpendable(utxoArray, d1, asOf, locktime, threshold)
       IN IF success.err = ""
          THEN Returned(EVMExportTx(<< >>, success.aad.outputs), success.aad)
          ELSE Thrown(success.err, success.aad)

(***************************************************************************)
(* InitialStates (src/src/apis/avm/initialstates.ts): fxs maps an fxID to  *)
(* the list of outputs added under it. A buffer is a sequence of bytes.    *)
(***************************************************************************)
\* fxs = {} of a new InitialStates
NoFxs == << >>

\* no buffer returned yet
NoBuffer == <<-1>>

RECURSIVE BE(_, _)
\* the big-endian bytes of n in a field of width bytes
BE(n, width) ==
  IF width = 0 THEN << >>
  ELSE Append(BE(n \div 256, width - 1), n % 256)

RECURSIVE ReadBE(_, _, _)
\* the number held big-endian by the width bytes of bytes after offset
ReadBE(bytes, offset, width) ==
  IF width = 0 THEN 0
  ELSE ReadBE(bytes, offset, width - 1) * 256 + bytes[offset + width]

\* writeUInt32BE / readUInt32BE, writeInt16BE of a non-negative number
UInt32BE(n) == BE(n, 4)
Int16BE(n) == BE(n, 2)
readUInt32BE(bytes, offset) == ReadBE(bytes, offset, 4)

\* an output held by an InitialStates: its type, its group id and amount
CodecOutput(outid, groupID, amount) ==
  [outid |-> outid, groupID |-> groupID, amount |-> amount]

\* the output types SelectOutputClass knows, by type id
RegisteredOutputIDs == {SECPXFEROUTPUTID, NFTXFEROUTPUTID}

\* Output.toBuffer: the body of an output (group id u32, amount u64)
OutputToBuffer(out) == BE(out.groupID, 4) \o BE(out.amount, 8)

\* Output.fromBuffer of the class selected for type id typeid: [out, offset]
OutputFromBuffer(typeid, bytes, offset) ==
  [out |-> CodecOutput(CHOOSE o \in RegisteredOutputIDs : outputIDBytes(o) = typeid,
                       ReadBE(bytes, offset, 4), ReadBE(bytes, offset + 4, 8)),
   offset |-> offset + 12]

\* Output.comparator(): by type id, then byte-lex on the body
SortCodecOutputs(outs) ==
  SortSeq(outs, LAMBDA a, b : LexLess(<<outputIDBytes(a.outid)>> \o OutputToBuffer(a),
                                      <<outputIDBytes(b.outid)>> \o OutputToBuffer(b)))

RECURSIVE Digits(_)
\* the decimal digits of n: String(n), as the default Array.sort compares it
Digits(n) == IF n < 10 THEN <<n>> ELSE Append(Digits(n \div 10), n % 10)

RECURSIVE SetToSeq(_)
SetToSeq(S) ==
  IF S = {} THEN << >>
  ELSE LET x == CHOOSE x \in S : TRUE IN <<x>> \o SetToSeq(S \ {x})

\* Object.keys(this.fxs).map(parseInt).sort(): no compare function, so the
\* keys are ordered as their decimal strings are
SortedKeys(f) ==
  SortSeq(SetToSeq(DOMAIN f), LAMBDA a, b : LexLess(Digits(a), Digits(b)))

\* InitialStates.addOutput(out, fxid)
addOutputState(f, out, fxid) ==
  IF fxid \in DOMAIN f THEN [f EXCEPT ![fxid] = Append(@, out)]
  ELSE [k \in DOMAIN f \cup {fxid} |-> IF k = fxid THEN <<out>> ELSE f[k]]

RECURSIVE OutputsToBuffer(_, _)
\* initialState.forEach: groupID (writeInt16BE), outputID (writeInt16BE), body
OutputsToBuffer(initialState, j) ==
  IF j > Len(initialState) THEN << >>
  ELSE Int16BE(initialState[j].groupID)
       \o Int16BE(outputIDBytes(initialState[j].outid))
       \o OutputToBuffer(initialState[j])
       \o OutputsToBuffer(initialState, j + 1)

RECURSIVE GroupsToBuffer(_, _, _)
\* keys.forEach: fxid, the number of outputs, the outputs in sorted order
GroupsToBuffer(f, keys, i) ==
  IF i > Len(keys) THEN << >>
  ELSE LET fxid == keys[i]
           initialState == SortCodecOutputs(f[fxid])
       IN UInt32BE(fxid) \o UInt32BE(Len(initialState))
          \o OutputsToBuffer(initialState, 1)
          \o GroupsToBuffer(f, keys, i + 1)

\* InitialStates.toBuffer: the bytes, and fxs after the in-place sorts
toBuffer(f) ==
  LET keys == SortedKeys(f)
  IN [bytes |-> UInt32BE(Len(keys)) \o GroupsToBuffer(f, keys, 1),
      fxs |-> [k \in DOMAIN f |-> SortCodecOutputs(f[k])]]

UnknownTypeError == "Error - SelectOutputClass: unknown outputid"
RangeError == "RangeError: attempt to access memory outside buffer bounds"

CanRead(bytes, offset, width) == offset + width <= Len(bytes)

RECURSIVE OutputsFromBuffer(_, _, _, _)
\* for (j < statelen): the type id (readUInt32BE), then the body
OutputsFromBuffer(bytes, offset, n, outs) ==
  IF n = 0 THEN [err |-> "", outs |-> outs, offset |-> offset]
  ELSE IF ~CanRead(bytes, offset, 4)
  THEN [err |-> RangeError, outs |-> outs, offset |-> offset]
  ELSE LET outputid == readUInt32BE(bytes, offset)
       IN IF \A o \in RegisteredOutputIDs : outputIDBytes(o) # outputid
          THEN [err |-> UnknownTypeError, outs |-> outs, offset |-> offset + 4]
          ELSE IF ~CanRead(bytes, offset + 4, 12)
          THEN [err |-> RangeError, outs |-> outs, offset |-> offset + 4]
          ELSE LET r == OutputFromBuffer(outputid, bytes, offset + 4)
               IN OutputsFromBuffer(bytes, r.offset, n - 1, Append(outs, r.out))

RECURSIVE GroupsFromBuffer(_, _, _, _)
\* for (i < klennum): fxid, statelen, the outputs; result[fxid] = the list
GroupsFromBuffer(bytes, offset, k, result) ==
  IF k = 0 THEN [err |-> "", fxs |-> result, offset |-> offset]
  ELSE IF ~CanRead(bytes, offset, 8)
  THEN [err |-> RangeError, fxs |-> result, offset |-> offset]
  ELSE LET fxid == readUInt32BE(bytes, offset)
           statelen == readUInt32BE(bytes, offset + 4)
           r == OutputsFromBuffer(bytes, offset + 8, statelen, << >>)
       IN IF r.err # ""
          THEN [err |-> r.err, fxs |-> result, offset |-> r.offset]
          ELSE GroupsFromBuffer(bytes, r.offset, k - 1,
                 [x \in DOMAIN result \cup {fxid} |->
                    IF x = fxid THEN r.outs ELSE result[x]])

\* InitialStates.fromBuffer(bytes, offset): [err, fxs, offset]; fxs is the
\* result it assigns to this.fxs when it does not throw
fromBuffer(bytes, offset) ==
  IF ~CanRead(bytes, offset, 4)
  THEN [err |-> RangeError, fxs |-> NoFxs, offset |-> offset]
  ELSE GroupsFromBuffer(bytes, offset + 4, readUInt32BE(bytes, offset), NoFxs)

\* no fromBuffer called yet
NoDecoded == [status |-> "none", err |-> "", fxs |-> NoFxs, offset |-> 0, bytes |-> NoBuffer]

(***************************************************************************)
(* UTXO.fromBuffer: codec id (2 bytes), tx id (32), output index (4),      *)
(* asset id (32), the type id of the output (4), the output's body.        *)
(***************************************************************************)
NoOutput == CodecOutput(NoOutputID, 0, 0)

\* new UTXO(): no field set yet
NoUTXO ==
  [codecid |-> << >>, txid |-> << >>, outputidx |-> << >>, assetid |-> << >>,
   output |-> NoOutput]

NoUTXORet == [status |-> "none", err |-> "", offset |-> 0]

\* bintools.copyFrom(bytes, start, end)
copyFrom(bytes, start, end) == SubSeq(bytes, start + 1, end)

\* UTXO.fromBuffer(bytes, offset) on object obj: the object after the call,
\* the error thrown ("" if none) and the offset returned
UTXOfromBuffer(obj, bytes, offset) ==
  LET codecid == copyFrom(bytes, offset, offset + 2)
      txid == copyFrom(bytes, offset + 2, offset + 34)
      outputidx == copyFrom(bytes, offset + 34, offset + 38)
      assetid == copyFrom(bytes, offset + 38, offset + 70)
      outputid == readUInt32BE(copyFrom(bytes, offset + 70, offset + 74), 0)
      header == [obj EXCEPT !.codecid = codecid, !.txid = txid,
                            !.outputidx = outputidx, !.assetid = assetid]
  IN IF \A o \in RegisteredOutputIDs : outputIDBytes(o) # outputid
     THEN [obj |-> header, err |-> UnknownTypeError, offset |-> offset + 74]
     ELSE LET r == OutputFromBuffer(outputid, bytes, offset + 74)
          IN [obj |-> [header EXCEPT !.output = r.out], err |-> "", offset |-> r.offset]

(***************************************************************************)
(* SlopesCore: the node address and the requests. A request configuration  *)
(* is an object: configs maps each object to its fields, and a request     *)
(* holds the object it handed to axios. axios is not among the sources: it *)
(* performs a request with the fields of the object it was handed.         *)
(***************************************************************************)
NoCore == [ip |-> "", port |-> 0, protocol |-> "", url |-> ""]

NoAddressArgs == [ip |-> "", port |-> 0, protocol |-> ""]

\* a protocol argument left out
UndefProtocol == "undefined"

\* the requests that can be in flight together
RequestIDs == {"r1", "r2"}

\* the configuration object of the caller, passed as axiosConfig
CallerConfig == "caller"

NoConfig == [baseURL |-> "", responseType |-> "", url |-> "", method |-> ""]

NoConfigs ==
  [o \in RequestIDs \cup {CallerConfig} |->
     IF o = CallerConfig THEN [NoConfig EXCEPT !.baseURL = "https://custom:1"]
     ELSE NoConfig]

NoRequest ==
  [state |-> "none", method |-> "", baseurl |-> "", custom |-> FALSE,
   config |-> "", at |-> "", sent |-> NoConfig]

NoRequests == [id \in RequestIDs |-> NoRequest]

\* setAddress(ip, port, protocol = "http")
setAddress(ip, port, protocolArg) ==
  LET protocol == IF protocolArg = UndefProtocol THEN "http" ELSE protocolArg
  IN [ip |-> ip, port |-> port, protocol |-> protocol,
      url |-> protocol \o "://" \o ip \o ":" \o ToString(port)]

getURL(c) == c.url

\* every request without axiosConfig configured in one and the same object
configObjectShared(id, custom) ==
  IF custom THEN CallerConfig ELSE "r1"

\* the object _request configures: axiosConfig if given, else a new object
configObject(id, custom) == IF custom THEN CallerConfig ELSE id

\* _request(xhrmethod, baseurl, ...) up to axios.request(config): the
\* configuration objects after it
request(c, cfgs, id, xhrmethod, baseurl, custom) ==
  LET o == configObject(id, custom)
      config == IF custom THEN cfgs[o]
                ELSE [NoConfig EXCEPT
                        !.baseURL = c.protocol \o "://" \o c.ip \o ":" \o ToString(c.port),
                        !.responseType = "text"]
  IN [cfgs EXCEPT ![o] = [config EXCEPT !.url = baseurl, !.method = xhrmethod]]

(***************************************************************************)
(* The inputs: UTXO sets and the arguments of the calls.                   *)
(***************************************************************************)
SECPTransferOutput(amount, addresses, locktime, threshold) ==
  SelectOutputClass(SECPXFEROUTPUTID, amount, addresses, locktime, threshold)

NFTTransferOutput(addresses) ==
  SelectOutputClass(NFTXFEROUTPUTID, 0, addresses, 0, 1)

\* what a UTXO of the set may hold: <<assetID, output>>
UTXOForms ==
  {<<a, SECPTransferOutput(amt, <<1>>, 0, 1)>> : a \in Assets, amt \in 1..MaxAmt}
  \cup {<<AVAX, SECPTransferOutput(amt, <<1, 2>>, 0, 2)>> : amt \in 1..MaxAmt}
  \cup {<<AVAX, SECPTransferOutput(1, <<1>>, 1, 1)>>}
  \cup {<<AVAX, NFTTransferOutput(<<1>>)>>}
  \cup {<<AVAX, SECPTransferOutput(1, << >>, 0, 0)>>}

\* the UTXO sets, each in its iteration order; the UTXO at position i has txid i
UTXOSets ==
  UNION {{[i \in 1..n |-> UTXO(i, 0, f[i][1], f[i][2])] : f \in [1..n -> UTXOForms]}
         : n \in 0..MaxUTXOs}

Amounts == 0..MaxAmt
Fees == {Undef} \cup 0..MaxFee
FeeAssets == {UndefID} \cup Assets

\* toAddresses, threshold, fromAddresses, changeAddresses, asOf; address
\* lists are passed in any order
AddrArgs ==
  { [to |-> <<2>>, threshold |-> 1, from |-> <<1>>, change |-> <<1>>, asOf |-> 1,
     locktime |-> 1],
    [to |-> <<2>>, threshold |-> 1, from |-> <<1>>, change |-> <<1>>, asOf |-> 0,
     locktime |-> 0],
    [to |-> <<2>>, threshold |-> 1, from |-> <<2, 1>>, change |-> UndefAddrs, asOf |-> 1,
     locktime |-> 0],
    [to |-> <<2>>, threshold |-> 2, from |-> <<1>>, change |-> <<1>>, asOf |-> 1,
     locktime |-> 0],
    [to |-> <<2, 1>>, threshold |-> 2, from |-> <<1>>, change |-> UndefAddrs, asOf |-> 1,
     locktime |-> 1] }

\* the inputs imported on the P-chain: TransferableInputs of the source chain
ImportIn(n, assetID, amount) ==
  addSignatureIdx(TransferableInput(100 + n, 0, assetID, amount), 0)

ImportInsArgs ==
  { << >>, <<ImportIn(1, AVAX, 1)>>, <<ImportIn(1, AVAX, MaxAmt)>>,
    <<ImportIn(1, ASSET2, 1)>> }

\* the atomic UTXOs imported on the C-chain
AtomicForms ==
  {<<AVAX, SECPTransferOutput(amt, <<1>>, 0, 1)>> : amt \in 1..MaxAmt}
  \cup {<<ASSET2, SECPTransferOutput(1, <<1>>, 0, 1)>>}

AtomicsArgs ==
  UNION {{[i \in 1..n |-> UTXO(100 + i, 0, f[i][1], f[i][2])] : f \in [1..n -> AtomicForms]}
         : n \in 0..MaxUTXOs}

EVMAddress == "0xC"

NoCall ==
  [op |-> "none", amount |-> 0, assetID |-> UndefID, to |-> << >>, from |-> << >>,
   change |-> UndefAddrs, fee |-> Undef, feeAssetID |-> UndefID, threshold |-> 1,
   asOf |-> 0, locktime |-> 0, imports |-> << >>]

NoRet == [status |-> "none", err |-> "", tx |-> NoTx, aad |-> NoAad]

(***************************************************************************)
(* The C-chain UTXOSet: the primary map utxos (UTXO id -> UTXO) and the    *)
(* secondary index addressUTXOs (address -> UTXO id -> amount). The        *)
(* serializer, UTXO.deserialize, getUTXOID, getAllUTXOs and addArray are   *)
(* not among the sources: from the spec.                                   *)
(***************************************************************************)
EmptyUTXOSet == [utxos |-> << >>, addressUTXOs |-> << >>]

\* a key or value as it stands in a serialized object, and serializer.decoder
Encoded(v) == [encoding |-> "hex", value |-> v]

decoder(v) == v.value

getUTXOID(utxo) == utxo.txid

\* UTXO.deserialize(fields)
UTXOdeserialize(f) ==
  UTXO(decoder(f.txid), decoder(f.outputidx), decoder(f.assetid),
       SelectOutputClass(f.output.outid, decoder(f.output.amount),
                         [i \in 1..Len(f.output.addresses) |-> decoder(f.output.addresses[i])],
                         decoder(f.output.locktime), decoder(f.output.threshold)))

\* UTXOSet.deserialize(fields): the two maps are rebuilt from the two fields
deserialize(fields) ==
  LET key(m, k) == CHOOSE e \in DOMAIN m : decoder(e) = k
      utxosOut == [id \in {decoder(e) : e \in DOMAIN fields.utxos} |->
                     UTXOdeserialize(fields.utxos[key(fields.utxos, id)])]
      utxobalance(m) == [id \in {decoder(e) : e \in DOMAIN m} |-> decoder(m[key(m, id)])]
      addressUTXOsOut ==
        [a \in {decoder(e) : e \in DOMAIN fields.addressUTXOs} |->
           utxobalance(fields.addressUTXOs[key(fields.addressUTXOs, a)])]
  IN [utxos |-> utxosOut, addressUTXOs |-> addressUTXOsOut]

\* UTXOSet.add(utxo): into the primary map under the UTXO's id and, for each
\* address of its output, into the secondary index; a UTXO whose id the set
\* holds is not added again
add(set, utxo) ==
  LET id == getUTXOID(utxo)
      addrs == {utxo.output.addrs[i] : i \in 1..Len(utxo.output.addrs)}
      old == set.addressUTXOs
  IN IF id \in DOMAIN set.utxos THEN set
     ELSE [utxos |-> (id :> utxo) @@ set.utxos,
           addressUTXOs |->
             [a \in DOMAIN old \cup addrs |->
                IF a \in addrs
                THEN (id :> utxo.output.amount) @@ (IF a \in DOMAIN old THEN old[a] ELSE << >>)
                ELSE old[a]]]

RECURSIVE addArray(_, _)
addArray(set, utxoArray) ==
  IF utxoArray = << >> THEN set
  ELSE addArray(add(set, Head(utxoArray)), Tail(utxoArray))

getAllUTXOs(set) ==
  LET ids == SetToSeq(DOMAIN set.utxos)
  IN [i \in 1..Len(ids) |-> set.utxos[ids[i]]]

\* clone(): a new set to which all the UTXOs of this one are added
clone(set) == addArray(EmptyUTXOSet, getAllUTXOs(set))

(***************************************************************************)
(* The parts of the state a specification does not use stay as they are    *)
(* before anything was constructed.                                        *)
(***************************************************************************)
NoAssetAmount == AssetAmount(UndefID, Undef, Undef)

IdleBuilders == utxos = << >> /\ call = NoCall /\ ret = NoRet
IdleCodec == fxs = NoFxs /\ buffer = NoBuffer /\ decoded = NoDecoded
IdleAmount == assetAmount = NoAssetAmount /\ spendRet = "none"
IdleSet == utxoset = EmptyUTXOSet /\ cloneset = << >>
IdleUTXO == utxoObj = NoUTXO /\ utxoRet = NoUTXORet
IdleSlopes ==
  /\ core = NoCore /\ setAddressArgs = NoAddressArgs
  /\ configs = NoConfigs /\ requests = NoRequests

OnlyBuilders == IdleCodec /\ IdleAmount /\ IdleSet /\ IdleUTXO /\ IdleSlopes
OnlyCodec == IdleBuilders /\ IdleAmount /\ IdleSet /\ IdleUTXO /\ IdleSlopes
OnlyAmount == IdleBuilders /\ IdleCodec /\ IdleSet /\ IdleUTXO /\ IdleSlopes
OnlySet == IdleBuilders /\ IdleCodec /\ IdleAmount /\ IdleUTXO /\ IdleSlopes
OnlyUTXO == IdleBuilders /\ IdleCodec /\ IdleAmount /\ IdleSet /\ IdleSlopes
OnlySlopes == IdleBuilders /\ IdleCodec /\ IdleAmount /\ IdleSet /\ IdleUTXO

(***************************************************************************)
(* The state machine: one call of a builder on a UTXO set.                 *)
(***************************************************************************)
Init ==
  /\ utxos \in UTXOSets
  /\ call = NoCall
  /\ ret = NoRet
  /\ OnlyBuilders

\* a buildBaseTx that removes from the set the UTXOs it consumed
CallBuildBaseTxConsuming ==
  /\ call.op = "none"
  /\ \E amount \in Amounts, assetID \in Assets, fee \in Fees, feeAssetID \in FeeAssets,
        a \in AddrArgs :
       /\ call' = [NoCall EXCEPT !.op = "buildBaseTx", !.amount = amount,
                     !.assetID = assetID, !.to = a.to, !.from = a.from,
                     !.change = a.change, !.fee = fee, !.feeAssetID = feeAssetID,
                     !.threshold = a.threshold, !.asOf = a.asOf,
                     !.locktime = a.locktime]
       /\ ret' = buildBaseTx(utxos, amount, assetID, a.to, a.from, a.change, fee,
                             feeAssetID, a.asOf, a.locktime, a.threshold)
  /\ utxos' = SelectSeq(utxos, LAMBDA u :
                 \A i \in 1..Len(ret'.aad.inputs) : ret'.aad.inputs[i].txid # u.txid)
  /\ UNCHANGED notbuilder

CallBuildBaseTx ==
  /\ call.op = "none"
  /\ \E amount \in Amounts, assetID \in Assets, fee \in Fees, feeAssetID \in FeeAssets,
        a \in AddrArgs :
       /\ call' = [NoCall EXCEPT !.op = "buildBaseTx", !.amount = amount,
                     !.assetID = assetID, !.to = a.to, !.from = a.from,
                     !.change = a.change, !.fee = fee, !.feeAssetID = feeAssetID,
                     !.threshold = a.threshold, !.asOf = a.asOf,
                     !.locktime = a.locktime]
       /\ ret' = buildBaseTx(utxos, amount, assetID, a.to, a.from, a.change, fee,
                             feeAssetID, a.asOf, a.locktime, a.threshold)
  /\ UNCHANGED <<utxos, notbuilder>>

CallBuildExportTx ==
  /\ call.op = "none"
  /\ \E amount \in Amounts, fee \in Fees, feeAssetID \in FeeAssets, a \in AddrArgs :
       /\ call' = [NoCall EXCEPT !.op = "buildExportTx", !.amount = amount,
                     !.assetID = AVAX, !.to = a.to, !.from = a.from,
                     !.change = a.change, !.fee = fee, !.feeAssetID = feeAssetID,
                     !.threshold = a.threshold, !.asOf = a.asOf,
                     !.locktime = a.locktime]
       /\ ret' = buildExportTx(utxos, amount, AVAX, a.to, a.from, a.change, fee,
                               feeAssetID, a.asOf, a.locktime, a.threshold)
  /\ UNCHANGED <<utxos, notbuilder>>

CallEVMBuildExportTx ==
  /\ call.op = "none"
  /\ \E amount \in Amounts, fee \in Fees, feeAssetID \in FeeAssets, a \in AddrArgs :
       /\ call' = [NoCall EXCEPT !.op = "EVM.buildExportTx", !.amount = amount,
                     !.assetID = AVAX, !.to = a.to, !.from = a.from,
                     !.change = a.change, !.fee = fee, !.feeAssetID = feeAssetID,
                     !.threshold = a.threshold, !.asOf = a.asOf,
                     !.locktime = a.locktime]
       /\ ret' = EVMbuildExportTx(utxos, amount, AVAX, a.to, a.from, a.change, fee,
                                  feeAssetID, a.asOf, a.locktime, a.threshold)
  /\ UNCHANGED <<utxos, notbuilder>>

CallBuildImportTx ==
  /\ call.op = "none"
  /\ \E importIns \in ImportInsArgs, fee \in Fees, feeAssetID \in FeeAssets,
        from \in {<<1>>, <<1, 2>>} :
       /\ call' = [NoCall EXCEPT !.op = "buildImportTx", !.from = from,
                     !.fee = fee, !.feeAssetID = feeAssetID, !.asOf = 1,
                     !.imports = importIns]
       /\ ret' = buildImportTx(utxos, from, importIns, fee, feeAssetID, 1)
  /\ UNCHANGED <<utxos, notbuilder>>

CallEVMBuildImportTx ==
  /\ call.op = "none"
  /\ \E atomics \in AtomicsArgs, fee \in Fees, feeAssetID \in FeeAssets,
        from \in {<<1>>, <<2>>} :
       /\ call' = [NoCall EXCEPT !.op = "EVM.buildImportTx", !.to = <<EVMAddress>>,
                     !.from = from, !.fee = fee, !.feeAssetID = feeAssetID,
                     !.asOf = 1, !.imports = atomics]
       /\ ret' = EVMbuildImportTx(utxos, <<EVMAddress>>, from, atomics, fee,
                                  feeAssetID, 1)
  /\ UNCHANGED <<utxos, notbuilder>>

\* the builders that spend from the set for a payload
Next ==
  \/ CallBuildBaseTx
  \/ CallBuildExportTx
  \/ CallEVMBuildExportTx

Spec == Init /\ [][Next]_vars

\* UTXO sets whose iteration order is any order of their txids
OrderForms ==
  {<<AVAX, SECPTransferOutput(amt, <<1>>, 0, 1)>> : amt \in {1, MaxAmt}}
  \cup {<<AVAX, SECPTransferOutput(MaxAmt, <<1, 2>>, 0, 2)>>}
  \cup {<<ASSET2, SECPTransferOutput(1, <<1>>, 0, 1)>>}

UTXOSetsAnyOrder ==
  UNION {{[i \in 1..n |-> UTXO(p[i], 0, f[i][1], f[i][2])] :
            f \in [1..n -> OrderForms], p \in Permutations(1..n)}
         : n \in 0..MaxUTXOs}

InitAnyOrder ==
  /\ utxos \in UTXOSetsAnyOrder
  /\ call = NoCall
  /\ ret = NoRet
  /\ OnlyBuilders

SpecAnyOrder == InitAnyOrder /\ [][Next]_vars

\* the import builders
NextImport ==
  \/ CallBuildImportTx
  \/ CallEVMBuildImportTx

SpecImport == Init /\ [][NextImport]_vars

\* every builder, on sets in any iteration order
NextAll ==
  \/ CallBuildBaseTx
  \/ CallBuildExportTx
  \/ CallEVMBuildExportTx
  \/ CallBuildImportTx
  \/ CallEVMBuildImportTx

SpecAll == InitAnyOrder /\ [][NextAll]_vars

(***************************************************************************)
(* The state machine of the codec: outputs are added to an InitialStates,  *)
(* it is serialized, and the buffer is decoded into a fresh InitialStates. *)
(***************************************************************************)
FxIDs == {2, 10}

\* the outputs added: amount outputs of group 0 and NFT outputs of any group
CodecOutputs ==
  {CodecOutput(SECPXFEROUTPUTID, 0, amt) : amt \in {1, MaxAmt}}
  \cup {CodecOutput(NFTXFEROUTPUTID, g, 0) : g \in {0, MaxGroupID}}

InitCodec ==
  /\ OnlyCodec
  /\ fxs = NoFxs /\ buffer = NoBuffer /\ decoded = NoDecoded

\* v.addOutput(out, fxid), while v is being built
AddOutput ==
  /\ buffer = NoBuffer
  /\ \E out \in CodecOutputs, fxid \in FxIDs :
       /\ fxid \in DOMAIN fxs => Len(fxs[fxid]) < MaxOuts
       /\ fxs' = addOutputState(fxs, out, fxid)
  /\ UNCHANGED <<buffer, decoded, notcodec>>

\* buffer = v.toBuffer()
ToBuffer ==
  /\ LET t == toBuffer(fxs)
     IN fxs' = t.fxs /\ buffer' = t.bytes
  /\ UNCHANGED <<decoded, notcodec>>

\* new InitialStates().fromBuffer(buffer)
FromBuffer ==
  /\ buffer # NoBuffer
  /\ LET r == fromBuffer(buffer, 0)
     IN decoded' = IF r.err = ""
                   THEN [status |-> "ok", err |-> "", fxs |-> r.fxs,
                         offset |-> r.offset, bytes |-> buffer]
                   ELSE [status |-> "error", err |-> r.err, fxs |-> NoFxs,
                         offset |-> r.offset, bytes |-> buffer]
  /\ UNCHANGED <<fxs, buffer, notcodec>>

NextCodec ==
  \/ AddOutput
  \/ ToBuffer
  \/ FromBuffer

SpecCodec == InitCodec /\ [][NextCodec]_vars

(***************************************************************************)
(* The state machine of an AssetAmount: it is constructed, and spendAmount *)
(* is called on it any number of times.                                    *)
(***************************************************************************)
MaxSpend == 4

\* the amounts an AssetAmount is constructed with and is handed
SpendAmounts == 0..MaxSpend

InitAmount ==
  /\ OnlyAmount
  /\ \E a \in Assets, amount \in {Undef} \cup SpendAmounts, burn \in Fees :
       assetAmount = AssetAmount(a, amount, burn)
  /\ spendRet = "none"

\* spendAmount(amt): the object after the call and the boolean returned
SpendAmount ==
  /\ \E amt \in SpendAmounts :
       /\ assetAmount' = spendAmount(assetAmount, amt)
       /\ spendRet' = IF assetAmount'.finished THEN "true" ELSE "false"
  /\ UNCHANGED notamount

NextAmount == SpendAmount

SpecAmount == InitAmount /\ [][NextAmount]_vars

(***************************************************************************)
(* The state machine of a C-chain UTXOSet: deserialize is called on it     *)
(* with a serialized object, and it is cloned.                             *)
(***************************************************************************)
SetIDs == 1..MaxUTXOs

SetAddresses == {1, 2}

\* the serialized UTXO of txid t
SerializedUTXO(t) ==
  [txid |-> Encoded(t), outputidx |-> Encoded(0), assetid |-> Encoded(AVAX),
   output |-> [outid |-> SECPXFEROUTPUTID, amount |-> Encoded(1),
               addresses |-> IF t = 1 THEN <<Encoded(1)>> ELSE <<Encoded(1), Encoded(2)>>,
               locktime |-> Encoded(0), threshold |-> Encoded(1)]]

\* the objects handed to deserialize: any UTXOs under any ids, and any ids
\* under any addresses
FieldsArgs ==
  LET utxosArgs == UNION {[{Encoded(k) : k \in S} -> {SerializedUTXO(t) : t \in SetIDs}]
                            : S \in SUBSET SetIDs}
      balances == UNION {[{Encoded(k) : k \in S} -> {Encoded(1)}] : S \in SUBSET SetIDs}
      addressArgs == UNION {[{Encoded(a) : a \in A} -> balances] : A \in SUBSET SetAddresses}
  IN {[utxos |-> u, addressUTXOs |-> x] : u \in utxosArgs, x \in addressArgs}

InitSet ==
  /\ OnlySet
  /\ utxoset = EmptyUTXOSet
  /\ cloneset = << >>

\* utxoset.deserialize(fields), on a set not cloned yet
Deserialize ==
  /\ cloneset = << >>
  /\ \E fields \in FieldsArgs : utxoset' = deserialize(fields)
  /\ UNCHANGED <<cloneset, notset>>

\* utxoset.clone(): the set cloned and the new set
Clone ==
  /\ cloneset' = <<utxoset, clone(utxoset)>>
  /\ UNCHANGED <<utxoset, notset>>

NextSet ==
  \/ Deserialize
  \/ Clone

SpecSet == InitSet /\ [][NextSet]_vars

(***************************************************************************)
(* The state machine of a UTXO object: fromBuffer is called on it with the *)
(* bytes of a UTXO, whose output type id may be unregistered.              *)
(***************************************************************************)
\* type ids no output class is registered for
UnregisteredTypeIDs == {5}

\* the bytes of a UTXO
UTXOBytes(codecid, txid, outputidx, assetID, typeid, amount) ==
  BE(codecid, 2) \o BE(txid, 32) \o BE(outputidx, 4) \o BE(assetIDBytes(assetID), 32)
  \o UInt32BE(typeid) \o BE(0, 4) \o BE(amount, 8)

UTXOBuffers ==
  {UTXOBytes(c, t, i, a, ty, amt) :
     c \in {0, 1}, t \in {1, 2}, i \in {0, 1}, a \in Assets,
     ty \in {outputIDBytes(o) : o \in RegisteredOutputIDs} \cup UnregisteredTypeIDs,
     amt \in {1, MaxAmt}}

InitUTXO ==
  /\ OnlyUTXO
  /\ utxoObj = NoUTXO
  /\ utxoRet = NoUTXORet

\* utxoObj.fromBuffer(bytes)
FromBufferUTXO ==
  /\ \E bytes \in UTXOBuffers :
       LET r == UTXOfromBuffer(utxoObj, bytes, 0)
       IN /\ utxoObj' = r.obj
          /\ utxoRet' = [status |-> IF r.err = "" THEN "ok" ELSE "error",
                         err |-> r.err, offset |-> r.offset]
  /\ UNCHANGED notutxo

NextUTXO == FromBufferUTXO

SpecUTXO == InitUTXO /\ [][NextUTXO]_vars

(***************************************************************************)
(* The state machine of a SlopesCore: setAddress is called, requests are   *)
(* issued through get, delete, post, put and patch, and axios performs     *)
(* them later, in any order.                                               *)
(***************************************************************************)
AddressArgs ==
  { [ip |-> "n1", port |-> 9650, protocol |-> UndefProtocol],
    [ip |-> "n2", port |-> 9650, protocol |-> "https"],
    [ip |-> "n1", port |-> 443, protocol |-> "https"] }

\* get, delete, post, put, patch
Methods == {"GET", "DELETE", "POST", "PUT", "PATCH"}

Endpoints == {"/ext/info"}

\* new SlopesCore(ip, port, protocol)
InitSlopes ==
  /\ OnlySlopes
  /\ \E a \in AddressArgs :
       /\ core = setAddress(a.ip, a.port, a.protocol)
       /\ setAddressArgs = a
  /\ configs = NoConfigs
  /\ requests = NoRequests

SetAddress ==
  /\ \E a \in AddressArgs :
       /\ core' = setAddress(a.ip, a.port, a.protocol)
       /\ setAddressArgs' = a
  /\ UNCHANGED <<configs, requests, notslopes>>

\* get / delete / post / put / patch (baseurl, ..., axiosConfig): _request
\* runs up to axios.request(config) and returns the promise
Request ==
  /\ \E id \in RequestIDs, xhrmethod \in Methods, baseurl \in Endpoints, custom \in BOOLEAN :
       /\ requests[id].state = "none"
       /\ configs' = request(core, configs, id, xhrmethod, baseurl, custom)
       /\ requests' = [requests EXCEPT ![id] =
                         [state |-> "inflight", method |-> xhrmethod, baseurl |-> baseurl,
                          custom |-> custom, config |-> configObject(id, custom),
                          at |-> getURL(core), sent |-> NoConfig]]
  /\ UNCHANGED <<core, setAddressArgs, notslopes>>

\* axios performs a request in flight with the configuration object it was
\* handed, and its promise resolves
Response ==
  /\ \E id \in RequestIDs :
       /\ requests[id].state = "inflight"
       /\ requests' = [requests EXCEPT ![id].state = "done",
                                       ![id].sent = configs[requests[id].config]]
  /\ UNCHANGED <<core, setAddressArgs, configs, notslopes>>

NextSlopes ==
  \/ SetAddress
  \/ Request
  \/ Response

SpecSlopes == InitSlopes /\ [][NextSlopes]_vars

(***************************************************************************)
(* What the claims speak of.                                               *)
(***************************************************************************)
RECURSIVE SumUTXOs(_, _)
\* the total amount of the UTXOs of sequence s that are of asset a
SumUTXOs(s, a) ==
  IF s = << >> THEN 0
  ELSE (IF Head(s).assetID = a THEN Head(s).output.amount ELSE 0) + SumUTXOs(Tail(s), a)

\* the UTXOs of the set that are amount outputs and meet the senders'
\* threshold at asOf
Eligible(c) ==
  SelectSeq(utxos, LAMBDA u : /\ isAmountOutput(u.output)
                              /\ meetsThreshold(u.output, c.from, c.asOf))

\* the fee asset of a call of buildBaseTx or buildExportTx
FeeAssetOf(c) == IF c.feeAssetID = UndefID THEN c.assetID ELSE c.feeAssetID

\* the amount of asset a burned by the call
Burned(c, a) == IF a = FeeAssetOf(c) THEN BNval(c.fee) ELSE 0

\* amount + burn of the demand the call registers for asset a
Demand(c, a) == (IF a = c.assetID THEN c.amount ELSE 0) + Burned(c, a)

IsDemanded(c, a) == a = c.assetID \/ a = FeeAssetOf(c)

\* the call gets as far as the solver
ReachesSolver(c) ==
  /\ c.amount # 0
  /\ c.op = "buildBaseTx" => c.threshold <= Len(c.to)
  /\ c.op \in {"buildExportTx", "EVM.buildExportTx"} => FeeAssetOf(c) = c.assetID

ChangeAddressesOf(c) == IF c.change = UndefAddrs THEN c.to ELSE c.change

\* C1: every BaseTx returned by buildBaseTx conserves each asset: the inputs
\* total the outputs (destination plus change) plus the fee burned in it
C1_Conservation ==
  (call.op = "buildBaseTx" /\ ret.status = "tx") =>
    \A a \in Assets :
      SumOver(ret.tx.ins, a) = SumOver(ret.tx.outs, a) + Burned(call, a)

\* a BaseTx with a fee in another asset than the payload, two inputs, and
\* destination and change outputs
C1_Witness ==
  /\ call.op = "buildBaseTx" /\ ret.status = "tx"
  /\ call.fee > 0 /\ FeeAssetOf(call) # call.assetID
  /\ Len(ret.tx.ins) = 2 /\ Len(ret.tx.outs) = 3

\* C2: when the eligible UTXOs of a demanded asset total less than amount +
\* burn, the solver returns the insufficient-funds error with no output
\* added, and buildBaseTx / buildExportTx throw it and return no transaction
C2_InsufficientFunds ==
  ( /\ call.op \in {"buildBaseTx", "buildExportTx", "EVM.buildExportTx"}
    /\ ReachesSolver(call)
    /\ \E a \in Assets : /\ IsDemanded(call, a)
                          /\ SumUTXOs(Eligible(call), a) < Demand(call, a) ) =>
    /\ ret.status = "error" /\ ret.err = InsufficientFunds
    /\ ret.aad.outputs = << >> /\ ret.aad.change = << >>
    /\ ret.tx = NoTx

\* insufficient funds found after the payload demand was met and inputs
\* were already collected
C2_Witness ==
  /\ call.op = "buildBaseTx" /\ ret.status = "error" /\ ret.err = InsufficientFunds
  /\ Len(ret.aad.amounts) = 2 /\ ret.aad.amounts[1].finished
  /\ Len(ret.aad.inputs) > 0

\* C3: a PlatformVM ExportTx whose inputs exceed amount + fee exports only
\* the destination output and keeps the change output among its own outputs
C3_ExportKeepsChange ==
  ( /\ call.op = "buildExportTx" /\ ret.status = "tx"
    /\ SumOver(ret.tx.ins, AVAX) > call.amount + BNval(call.fee) ) =>
    LET dest == TransferableOutput(AVAX,
                  SECPTransferOutput(call.amount, call.to, call.locktime, call.threshold))
        chg == TransferableOutput(AVAX,
                 SECPTransferOutput(SumOver(ret.tx.ins, AVAX) - call.amount - BNval(call.fee),
                                    ChangeAddressesOf(call), 0, 1))
    IN /\ ret.tx.exportouts = <<dest>>
       /\ \E i \in 1..Len(ret.tx.outs) : ret.tx.outs[i] = chg
       /\ \A i \in 1..Len(ret.tx.exportouts) : ret.tx.exportouts[i] # chg

\* C4: a C-chain ExportTx with amount > 0 carries inputs, which total at
\* least amount + fee
C4_EVMExportFunded ==
  (call.op = "EVM.buildExportTx" /\ ret.status = "tx" /\ call.amount > 0) =>
    /\ ret.tx.ins # << >>
    /\ SumOver(ret.tx.ins, AVAX) >= call.amount + BNval(call.fee)

\* C5: a C-chain ImportTx whose atomic UTXOs of the fee asset cover the fee
\* puts out, per asset, the imported amount less the fee paid in that asset
C5_EVMImportFeeFromInputs ==
  ( /\ call.op = "EVM.buildImportTx" /\ ret.status = "tx"
    /\ SumUTXOs(call.imports, call.feeAssetID) >= BNval(call.fee) ) =>
    \A a \in Assets :
      SumOver(ret.tx.outs, a) =
        SumOver(ret.tx.importins, a) - (IF a = call.feeAssetID THEN BNval(call.fee) ELSE 0)

\* C6: when the atomic UTXOs of the fee asset total less than the fee, the
\* C-chain buildImportTx fails with insufficient funds or returns a
\* transaction whose fee-asset inputs less outputs are at least the fee
C6_EVMImportNeverUnderpays ==
  ( /\ call.op = "EVM.buildImportTx" /\ call.feeAssetID # UndefID
    /\ SumUTXOs(call.imports, call.feeAssetID) < BNval(call.fee) ) =>
    \/ ret.status = "error" /\ ret.err = InsufficientFunds
    \/ /\ ret.status = "tx"
       /\ SumOver(ret.tx.importins, call.feeAssetID) + SumOver(ret.tx.ins, call.feeAssetID)
            - SumOver(ret.tx.outs, call.feeAssetID) >= call.fee

\* C7: when the imported inputs of the fee asset cover the fee, the
\* PlatformVM buildImportTx consumes no UTXO of the set
C7_ImportFeeFromImportsFirst ==
  ( /\ call.op = "buildImportTx" /\ ret.status = "tx"
    /\ call.fee > 0 /\ call.feeAssetID # UndefID
    /\ SumOver(call.imports, call.feeAssetID) >= call.fee ) =>
    ret.tx.ins = << >>

\* C8: a PlatformVM ImportTx conserves each asset: the imported inputs plus
\* the inputs taken from the set total the outputs plus the fee burned
C8_ImportCarriesValue ==
  (call.op = "buildImportTx" /\ ret.status = "tx") =>
    \A a \in Assets :
      SumOver(ret.tx.importins, a) + SumOver(ret.tx.ins, a) =
        SumOver(ret.tx.outs, a)
          + (IF call.feeAssetID # UndefID /\ a = call.feeAssetID THEN BNval(call.fee) ELSE 0)

\* C9: buildImportTx with fee > 0 and a fee asset that none of the imported
\* UTXOs has fails with an error (the claim: a configuration error) and
\* returns no transaction
C9_ImportForeignFeeRejected ==
  ( /\ call.op \in {"buildImportTx", "EVM.buildImportTx"}
    /\ call.fee > 0 /\ call.feeAssetID # UndefID
    /\ call.imports # << >>
    /\ \A i \in 1..Len(call.imports) : call.imports[i].assetID # call.feeAssetID ) =>
    /\ ret.status = "error"
    /\ ret.tx = NoTx

\* C10: buildBaseTx and both buildExportTx fail with an error and return no
\* transaction when threshold exceeds the number of destination addresses
C10_ThresholdGuardShared ==
  ( /\ call.op \in {"buildBaseTx", "buildExportTx", "EVM.buildExportTx"}
    /\ call.threshold > Len(call.to) ) =>
    ret.status = "error" /\ ret.tx = NoTx

\* C11: buildBaseTx (threshold within the destinations) and both buildExportTx
\* called with amount 0 return undefined: no error, no transaction, and the
\* solver is not run, so no UTXO is selected, whatever the set, the fee and
\* the fee asset
C11_ZeroAmountNoOp ==
  ( /\ call.op \in {"buildBaseTx", "buildExportTx", "EVM.buildExportTx"}
    /\ call.amount = 0
    /\ call.threshold <= Len(call.to) ) =>
    /\ ret.status = "undefined" /\ ret.err = ""
    /\ ret.tx = NoTx
    /\ ret.aad = NoAad

\* an export of amount 0 with a fee in a foreign asset on a non-empty set
C11_Witness ==
  /\ call.op = "buildExportTx" /\ call.amount = 0
  /\ call.fee > 0 /\ call.feeAssetID = ASSET2
  /\ call.threshold <= Len(call.to)
  /\ Len(utxos) > 0
  /\ ret.status = "undefined"

\* C12: both buildExportTx called with amount > 0 and a fee asset other than
\* avaxAssetID throw and return no transaction; with the fee asset omitted
\* the solver is handed the single demand (avaxAssetID, amount, fee)
C12_ExportFeeAssetIsAVAX ==
  ( /\ call.op \in {"buildExportTx", "EVM.buildExportTx"}
    /\ call.amount > 0 ) =>
    /\ call.feeAssetID \notin {UndefID, call.assetID} =>
         /\ ret.status = "error" /\ ret.err = FeeAssetError
         /\ ret.tx = NoTx /\ ret.aad = NoAad
    /\ call.feeAssetID = UndefID =>
         /\ ret.status \in {"tx", "error"}
         /\ Len(ret.aad.amounts) = 1
         /\ ret.aad.amounts[1].assetID = call.assetID
         /\ ret.aad.amounts[1].amount = call.amount
         /\ ret.aad.amounts[1].burn = BNval(call.fee)

\* an export with a fee in a foreign asset that the set could have paid
C12_Witness ==
  /\ call.op = "EVM.buildExportTx" /\ call.amount > 0
  /\ call.fee > 0 /\ call.feeAssetID = ASSET2
  /\ SumUTXOs(Eligible(call), ASSET2) >= call.fee
  /\ SumUTXOs(Eligible(call), AVAX) >= call.amount
  /\ ret.status = "error" /\ ret.err = FeeAssetError

\* C13: buildBaseTx hands the solver one demand (asset, amount, fee) when
\* the fee asset is the payload asset or omitted, and otherwise the two
\* demands (asset, amount, 0) and (feeAsset, 0, fee); no two demands have
\* the same asset, so each is the one the by-asset lookup returns
C13_OneDemandPerAsset ==
  (call.op = "buildBaseTx" /\ ReachesSolver(call)) =>
    LET am == ret.aad.amounts
    IN /\ FeeAssetOf(call) = call.assetID =>
            /\ Len(am) = 1
            /\ am[1].assetID = call.assetID /\ am[1].amount = call.amount
            /\ am[1].burn = BNval(call.fee)
       /\ FeeAssetOf(call) # call.assetID =>
            /\ Len(am) = 2
            /\ am[1].assetID = call.assetID /\ am[1].amount = call.amount
            /\ am[1].burn = 0
            /\ am[2].assetID = call.feeAssetID /\ am[2].amount = 0
            /\ am[2].burn = BNval(call.fee)
       /\ \A i, j \in 1..Len(am) : am[i].assetID = am[j].assetID => i = j
       /\ \A i \in 1..Len(am) : getAssetAmount(ret.aad, am[i].assetID) = am[i]

\* a payload in one asset with a fee in the other, both met from the set
C13_Witness ==
  /\ call.op = "buildBaseTx" /\ ret.status = "tx"
  /\ call.fee > 0 /\ FeeAssetOf(call) # call.assetID
  /\ Len(ret.aad.amounts) = 2
  /\ ret.aad.amounts[1].finished /\ ret.aad.amounts[2].finished

\* the UTXO of the set that an input references
ReferencedUTXO(in) ==
  CHOOSE u \in {utxos[i] : i \in 1..Len(utxos)} :
    u.txid = in.txid /\ u.outputidx = in.outputidx

SolverOps == {"buildBaseTx", "buildExportTx", "EVM.buildExportTx"}

\* C14: every input emitted by getMinimumSpendable carries at least as many
\* signature indices as the threshold of the output it references
C14_ThresholdHonored ==
  (call.op \in SolverOps) =>
    \A i \in 1..Len(ret.aad.inputs) :
      Len(ret.aad.inputs[i].sigidx) >= ReferencedUTXO(ret.aad.inputs[i]).output.threshold

\* a 2-of-2 output consumed with both senders' signature indices
C14_Witness ==
  /\ call.op \in SolverOps
  /\ \E i \in 1..Len(ret.aad.inputs) :
       /\ ReferencedUTXO(ret.aad.inputs[i]).output.threshold = 2
       /\ ret.aad.inputs[i].sigidx = <<0, 1>>

\* C15 as stated: every input emitted by getMinimumSpendable has a
\* non-empty list of signature indices
C15_NoInputWithoutSigners ==
  (call.op \in SolverOps) =>
    \A i \in 1..Len(ret.aad.inputs) : ret.aad.inputs[i].sigidx # << >>

\* C15 amended: every input emitted for an output of threshold >= 1 has a
\* non-empty list of signature indices, and no output locked after asOf is
\* selected; an output of threshold 0 is selected with no signature index
C15_SignersWhereRequired ==
  (call.op \in SolverOps) =>
    \A i \in 1..Len(ret.aad.inputs) :
      LET out == ReferencedUTXO(ret.aad.inputs[i]).output
      IN /\ out.locktime <= call.asOf
         /\ out.threshold >= 1 => ret.aad.inputs[i].sigidx # << >>
         /\ out.threshold = 0 /\ out.addrs = << >> => ret.aad.inputs[i].sigidx = << >>

\* a threshold-0 output and a signed output consumed by the same call
C15_Witness ==
  /\ call.op \in SolverOps
  /\ Len(ret.aad.inputs) = 2
  /\ \E i, j \in 1..2 :
       /\ ReferencedUTXO(ret.aad.inputs[i]).output.threshold = 0
       /\ ret.aad.inputs[i].sigidx = << >>
       /\ ReferencedUTXO(ret.aad.inputs[j]).output.threshold = 1
       /\ ret.aad.inputs[j].sigidx = <<0>>

\* the outputs in canonical order, equal neighbours allowed
SortedOutputs(outs) ==
  \A i \in 1..(Len(outs) - 1) : ~LexLess(OutputBytes(outs[i + 1]), OutputBytes(outs[i]))

\* the outputs in canonical order with no two equal
StrictlySortedOutputs(outs) ==
  \A i \in 1..(Len(outs) - 1) : LexLess(OutputBytes(outs[i]), OutputBytes(outs[i + 1]))

StrictlySortedInputs(ins) ==
  \A i \in 1..(Len(ins) - 1) : LexLess(InputBytes(ins[i]), InputBytes(ins[i + 1]))

StrictlyIncreasing(s) == \A i \in 1..(Len(s) - 1) : s[i] < s[i + 1]

\* addresses of every output and signature indices of every input of tx
\* strictly increasing, inputs strictly sorted
ListsCanonical(tx) ==
  /\ StrictlySortedInputs(tx.ins)
  /\ \A i \in 1..Len(tx.ins) : StrictlyIncreasing(tx.ins[i].sigidx)
  /\ \A i \in 1..Len(tx.outs) : StrictlyIncreasing(tx.outs[i].addrs)
  /\ \A i \in 1..Len(tx.exportouts) : StrictlyIncreasing(tx.exportouts[i].addrs)

C19_InitialStatesRoundTrip ==
  (decoded.status # "none" /\ decoded.bytes = toBuffer(fxs).bytes) =>
    /\ decoded.status = "ok"
    /\ decoded.fxs = fxs
    /\ decoded.offset = Len(decoded.bytes)

\* C20: the C-chain buildImportTx called with fee and feeAssetID omitted
\* returns an ImportTx with one input per atomic UTXO and one EVMOutput
\* carrying the full amount of each atomic UTXO
C20_EVMImportFeeOptional ==
  ( /\ call.op = "EVM.buildImportTx"
    /\ call.fee = Undef /\ call.feeAssetID = UndefID ) =>
    /\ ret.status = "tx"
    /\ Len(ret.tx.importins) = Len(call.imports)
    /\ Len(ret.tx.outs) = Len(call.imports)
    /\ \A i \in 1..Len(call.imports) :
         /\ ret.tx.outs[i].assetID = call.imports[i].assetID
         /\ ret.tx.outs[i].amount = call.imports[i].output.amount

\* the UTXOs of the set the senders of call c can spend at c.asOf and whose
\* asset c demands
Relevant(c) ==
  SelectSeq(Eligible(c), LAMBDA u : IsDemanded(c, u.assetID))

\* the demands the builder of call c hands to the solver
DemandsOf(c) ==
  LET d0 == AssetAmountDestination(c.to, c.from, ChangeAddressesOf(c))
  IN IF FeeAssetOf(c) = c.assetID
     THEN addAssetAmount(d0, c.assetID, c.amount, c.fee)
     ELSE addAssetAmount(addAssetAmount(d0, c.assetID, c.amount, 0), FeeAssetOf(c), 0, c.fee)

\* C21: every input emitted by getMinimumSpendable references a UTXO of the
\* set whose asset is demanded, whose output is an amount output and which
\* meets the senders' threshold at asOf; no UTXO is referenced twice; and
\* the other UTXOs of the set make no difference to the inputs collected
\* nor to the error
C21_SelectionRule ==
  (call.op \in SolverOps /\ ReachesSolver(call)) =>
    LET ins == ret.aad.inputs
        alone == SelectLoop(DemandsOf(call), NoOutids, Relevant(call), 1, call.asOf).aad
    IN /\ \A i \in 1..Len(ins) :
            /\ \E k \in 1..Len(utxos) : /\ utxos[k].txid = ins[i].txid
                                         /\ utxos[k].outputidx = ins[i].outputidx
            /\ LET u == ReferencedUTXO(ins[i])
               IN /\ u.assetID = ins[i].assetID
                  /\ IsDemanded(call, u.assetID)
                  /\ isAmountOutput(u.output)
                  /\ meetsThreshold(u.output, call.from, call.asOf)
       /\ \A i, j \in 1..Len(ins) : ins[i].txid = ins[j].txid => i = j
       /\ ins = alone.inputs
       /\ (ret.status = "error") = ~canComplete(alone)

\* a call that consumed one UTXO and passed over an NFT output of the
\* demanded asset
C21_Witness ==
  /\ call.op \in SolverOps /\ ret.status = "tx"
  /\ Len(utxos) = 2 /\ Len(ret.aad.inputs) = 1
  /\ utxos[1].assetID = call.assetID /\ ~isAmountOutput(utxos[1].output)
  /\ ret.aad.inputs[1].txid = utxos[2].txid

\* the eligible UTXOs of asset a, in the set's iteration order
EligibleOf(c, a) == SelectSeq(Eligible(c), LAMBDA u : u.assetID = a)

\* the inputs of asset a, in the order they were emitted
InputsOf(d, a) == SelectSeq(d.inputs, LAMBDA in : in.assetID = a)

\* the length of the shortest prefix of E whose amounts total need or more
FirstFit(E, a, need) ==
  CHOOSE k \in 0..Len(E) :
    /\ SumUTXOs(SubSeq(E, 1, k), a) >= need
    /\ \A j \in 0..(k - 1) : SumUTXOs(SubSeq(E, 1, j), a) < need

\* C22: for each demanded asset with amount + burn > 0 that the eligible
\* UTXOs can pay, the UTXOs consumed are exactly the shortest prefix, in the
\* set's iteration order, of the eligible UTXOs of the asset that totals
\* amount + burn or more
C22_GreedyFirstFit ==
  (call.op \in SolverOps /\ ReachesSolver(call)) =>
    \A a \in Assets :
      ( /\ IsDemanded(call, a) /\ Demand(call, a) > 0
        /\ SumUTXOs(EligibleOf(call, a), a) >= Demand(call, a) ) =>
        LET E == EligibleOf(call, a)
            k == FirstFit(E, a, Demand(call, a))
            ins == InputsOf(ret.aad, a)
        IN /\ Len(ins) = k
           /\ \A i \in 1..k : /\ ins[i].txid = E[i].txid
                               /\ ins[i].outputidx = E[i].outputidx
                               /\ ins[i].amount = E[i].output.amount

\* a set iterated in descending txid order with two eligible UTXOs of the
\* demanded asset, of which the first alone is consumed
C22_Witness ==
  /\ call.op \in SolverOps /\ ret.status = "tx"
  /\ Len(utxos) = 2 /\ utxos[1].txid > utxos[2].txid
  /\ Len(EligibleOf(call, call.assetID)) = 2
  /\ Len(ret.aad.inputs) = 1
  /\ ret.aad.inputs[1].txid = utxos[1].txid

\* finished implies spent >= amount + burn and change = spent - (amount +
\* burn); not finished implies change = 0
AccumulatorInv ==
  /\ assetAmount.finished => /\ assetAmount.spent >= assetAmount.amount + assetAmount.burn
                    /\ assetAmount.change = assetAmount.spent - (assetAmount.amount + assetAmount.burn)
  /\ ~assetAmount.finished => assetAmount.change = 0

\* C23: in every state reached by any sequence of spendAmount calls the
\* accumulator invariant holds, and a spendAmount call on a finished
\* AssetAmount leaves it finished with spent and change unchanged and
\* returns true
C23_Accumulator ==
  /\ []AccumulatorInv
  /\ [][assetAmount.finished => (assetAmount' = assetAmount /\ spendRet' = "true")]_vars

\* a finished AssetAmount with a burn and change left over
C23_Witness ==
  /\ assetAmount.finished /\ spendRet = "true"
  /\ assetAmount.amount > 0 /\ assetAmount.burn > 0 /\ assetAmount.change > 0

\* the outputs of asset a among outs, in their order, without the type id
OutputsOfAsset(outs, a) ==
  LET of == SelectSeq(outs, LAMBDA o : o.assetID = a)
  IN [i \in 1..Len(of) |->
        [amount |-> of[i].amount, addrs |-> of[i].addrs,
         locktime |-> of[i].locktime, threshold |-> of[i].threshold]]

\* what the inputs collected for asset a leave over the demand of call c
ChangeOf(c, r, a) ==
  SumOver(r.aad.inputs, a) - Demand(c, a)

\* the outputs call c is to get for asset a: the destination output if the
\* amount sent is positive, then the change output if change is left
ExpectedOutputs(c, r, a) ==
  LET amount == IF a = c.assetID THEN c.amount ELSE 0
  IN (IF IsDemanded(c, a) /\ amount > 0
      THEN <<[amount |-> amount, addrs |-> SortAddresses(c.to),
              locktime |-> c.locktime, threshold |-> c.threshold]>>
      ELSE << >>)
     \o
     (IF IsDemanded(c, a) /\ ChangeOf(c, r, a) > 0
      THEN <<[amount |-> ChangeOf(c, r, a), addrs |-> SortAddresses(ChangeAddressesOf(c)),
              locktime |-> 0, threshold |-> 1]>>
      ELSE << >>)

\* C24: when the solver succeeds it emits, per demand, exactly one
\* destination output if the amount is positive (that amount, the
\* destinations, the given locktime and threshold) and none if it is 0, and
\* exactly one change output to the change addresses if the change is
\* positive and none if it is 0
C24_OutputsEmitted ==
  (call.op \in SolverOps /\ ret.status = "tx") =>
    \A a \in Assets :
      OutputsOfAsset(getAllOutputs(ret.aad), a) = ExpectedOutputs(call, ret, a)

\* a fee-only demand consumed exactly (no output of the fee asset) next to a
\* demand that gets a destination output and a change output
C24_Witness ==
  /\ call.op = "buildBaseTx" /\ ret.status = "tx"
  /\ FeeAssetOf(call) # call.assetID /\ BNval(call.fee) > 0
  /\ \E i \in 1..Len(ret.aad.inputs) : ret.aad.inputs[i].assetID = FeeAssetOf(call)
  /\ OutputsOfAsset(getAllOutputs(ret.aad), FeeAssetOf(call)) = << >>
  /\ Len(OutputsOfAsset(getAllOutputs(ret.aad), call.assetID)) = 2
  /\ call.locktime > 0

\* every id in the secondary index is a key of the primary map, and every
\* address of every stored UTXO's output lists the UTXO's id
IndexConsistent(set) ==
  /\ \A a \in DOMAIN set.addressUTXOs :
       \A id \in DOMAIN set.addressUTXOs[a] : id \in DOMAIN set.utxos
  /\ \A id \in DOMAIN set.utxos :
       \A i \in 1..Len(set.utxos[id].output.addrs) :
         LET a == set.utxos[id].output.addrs[i]
         IN a \in DOMAIN set.addressUTXOs /\ id \in DOMAIN set.addressUTXOs[a]

\* C25: after deserialize (of any object) and after clone the secondary
\* index and the primary map of the set are consistent, and the clone holds
\* exactly the UTXO ids of the set cloned
C25_IndexConsistency ==
  /\ IndexConsistent(utxoset)
  /\ cloneset # << >> =>
       /\ IndexConsistent(cloneset[2])
       /\ DOMAIN cloneset[2].utxos = DOMAIN cloneset[1].utxos

\* C26: in the C-chain buildImportTx the signature indices of every input
\* reference only addresses of fromAddresses: the positions, in the imported
\* output's address list, of the addresses fromAddresses holds
C26_ImportSignersFromSenders ==
  (call.op = "EVM.buildImportTx" /\ ret.status = "tx") =>
    \A i \in 1..Len(ret.tx.importins) :
      \A k \in 1..Len(call.imports) :
        call.imports[k].txid = ret.tx.importins[i].txid =>
          \A j \in 1..Len(ret.tx.importins[i].sigidx) :
            \E m \in 1..Len(call.from) :
              call.imports[k].output.addrs[ret.tx.importins[i].sigidx[j] + 1] = call.from[m]

\* C27: the solver returns the insufficient-funds error only if the eligible
\* UTXOs of some demanded asset total less than amount + burn; a demand
\* with amount + burn = 0 is satisfied without a UTXO of its asset and
\* consumes none
C27_ErrorOnlyIfInsufficient ==
  (call.op \in SolverOps /\ ReachesSolver(call)) =>
    /\ (ret.status = "error" /\ ret.err = InsufficientFunds) =>
         \E a \in Assets : /\ IsDemanded(call, a)
                            /\ SumUTXOs(Eligible(call), a) < Demand(call, a)
    /\ \A a \in Assets :
         (IsDemanded(call, a) /\ Demand(call, a) = 0) =>
           \A i \in 1..Len(ret.aad.inputs) : ret.aad.inputs[i].assetID # a

RECURSIVE WrittenFxIDs(_, _, _)
\* the fxIDs of the n groups written in bytes from offset on, as written:
\* a group is its fxID (4 bytes), the number of its outputs (4 bytes) and
\* 16 bytes per output
WrittenFxIDs(bytes, offset, n) ==
  IF n = 0 THEN << >>
  ELSE <<readUInt32BE(bytes, offset)>>
       \o WrittenFxIDs(bytes, offset + 8 + 16 * readUInt32BE(bytes, offset + 4), n - 1)

\* C28: toBuffer writes one group per distinct fxID, in strictly ascending
\* numeric order of the fxIDs, and a second toBuffer gives the same bytes
C28_GroupsAscending ==
  buffer # NoBuffer =>
    LET n == readUInt32BE(buffer, 0)
        ids == WrittenFxIDs(buffer, 4, n)
    IN /\ n = Cardinality(DOMAIN fxs)
       /\ \A i \in 1..(Len(ids) - 1) : ids[i] < ids[i + 1]
       /\ toBuffer(fxs).bytes = buffer

\* C29: a fromBuffer that fails on an unregistered output type id surfaces
\* the error and leaves the object with the field values (codec id, tx id,
\* output index, asset id, output) it had before the call
C29_FailedDecodeKeepsObject ==
  [][utxoRet'.err = UnknownTypeError => utxoObj' = utxoObj]_vars

\* protocol + "://" + ip + ":" + port of the arguments of a setAddress call
AddressURL(a) ==
  (IF a.protocol = UndefProtocol THEN "http" ELSE a.protocol)
  \o "://" \o a.ip \o ":" \o ToString(a.port)

\* the configuration a request without axiosConfig is to be performed with
OwnConfig(r) ==
  [baseURL |-> r.at, responseType |-> "text", url |-> r.baseurl, method |-> r.method]

\* C30: getURL is the URL of the latest setAddress call; every request
\* issued without axiosConfig is configured, and performed, with the base
\* URL in force at the moment of its call, its own method and endpoint,
\* whatever setAddress calls and other requests come before its response
C30_RequestsUseAddressInForce ==
  /\ getURL(core) = AddressURL(setAddressArgs)
  /\ \A id \in RequestIDs :
       (requests[id].state # "none" /\ ~requests[id].custom) =>
         /\ configs[requests[id].config] = OwnConfig(requests[id])
         /\ requests[id].state = "done" => requests[id].sent = OwnConfig(requests[id])

\* two requests without axiosConfig, issued at different addresses with
\* different methods, both performed after the address changed again
C30_Witness ==
  \E id, other \in RequestIDs :
    /\ id # other
    /\ requests[id].state = "done" /\ requests[other].state = "done"
    /\ ~requests[id].custom /\ ~requests[other].custom
    /\ requests[id].at # requests[other].at
    /\ requests[id].method # requests[other].method
    /\ getURL(core) # requests[id].at /\ getURL(core) # requests[other].at
    /\ requests[id].sent.baseURL = requests[id].at

====
